---- MODULE Spec2Model ----
(***************************************************************************)
(* The grid state machine of 2048game.py: GameState (an N x N array of     *)
(* None or a positive integer) and GameSession (move resolution by         *)
(* repeated row-major shift/merge passes, the terminal check by four       *)
(* simulated moves, and the spawn of a 2 on a random empty cell).          *)
(***************************************************************************)
EXTENDS Integers, Sequences, FiniteSets, TLC

\* ------------------------------------------------------------------ bounds
\* Largest grid side: of a session that is played, and of the input grids
\* that are enumerated cell by cell.
MaxSize == 2
\* Tiles a session may spawn before the model stops issuing spawning moves.
MaxSpawns == 7
\* Largest side of the input grids whose tiles lie in a single row or column.
MaxLineSize == 4

\* --------------------------------------------------------------- constants
\* The empty cell (Python's None); tile values are positive integers.
None == 0

\* The value nextMove spawns: addNumToRandomPoint(2).
SpawnVal == 2

\* class Move(Enum)
Move == {"up", "down", "left", "right"}

\* The outcome of a call that an AssertionError aborted.
AssertionError == [raised |-> "AssertionError"]

Raised(v) == "raised" \in DOMAIN v

\* ---------------------------------------------------------------- GameState
Coords(size) == 0 .. (size - 1)

\* GameState.__init__: a size x size array of None, indexed data[y][x].
GameState(size) ==
    [size |-> size, data |-> [y \in Coords(size) |-> [x \in Coords(size) |-> None]]]

\* The assertion of getItem and setItem.
InRange(gs, x, y) == x \in Coords(gs.size) /\ y \in Coords(gs.size)

getItem(gs, x, y) == gs.data[y][x]

setItem(gs, x, y, newVal) == [gs EXCEPT !.data[y][x] = newVal]

\* __eq__ with the return of True moved into the loop: only the first cell,
\* (0, 0), is compared.
GameStateEqFirstCell(self, other) ==
    IF self.size # other.size
    THEN FALSE
    ELSE getItem(self, 0, 0) = getItem(other, 0, 0)

\* GameState.__eq__
GameStateEq(self, other) ==
    IF self.size # other.size
    THEN FALSE
    ELSE \A y \in Coords(self.size) : \A x \in Coords(self.size) :
             getItem(self, x, y) = getItem(other, x, y)

\* -------------------------------------------------------------- GameSession
\* shiftOneItemTo with the mutation of a tile that is blocked swapping places
\* with its neighbour.
shiftOneItemToSwap(gs, startCoords, endCoords) ==
    IF ~InRange(gs, startCoords[1], startCoords[2]) \/ ~InRange(gs, endCoords[1], endCoords[2])
    THEN AssertionError
    ELSE LET startVal == getItem(gs, startCoords[1], startCoords[2])
             endVal == getItem(gs, endCoords[1], endCoords[2])
         IN  IF endVal = None
             THEN setItem(setItem(gs, endCoords[1], endCoords[2], startVal),
                          startCoords[1], startCoords[2], None)
             ELSE IF startVal = endVal
             THEN setItem(setItem(gs, endCoords[1], endCoords[2], startVal + endVal),
                          startCoords[1], startCoords[2], None)
             ELSE setItem(setItem(gs, endCoords[1], endCoords[2], startVal),
                          startCoords[1], startCoords[2], endVal)

\* shiftOneItemTo without the merge: a tile only moves into an empty cell.
shiftOneItemToNoMerge(gs, startCoords, endCoords) ==
    IF ~InRange(gs, startCoords[1], startCoords[2]) \/ ~InRange(gs, endCoords[1], endCoords[2])
    THEN AssertionError
    ELSE LET startVal == getItem(gs, startCoords[1], startCoords[2])
             endVal == getItem(gs, endCoords[1], endCoords[2])
         IN  IF endVal = None
             THEN setItem(setItem(gs, endCoords[1], endCoords[2], startVal),
                          startCoords[1], startCoords[2], None)
             ELSE gs

\* shiftOneItemTo with a merge that writes startVal, not the sum.
shiftOneItemToNoSum(gs, startCoords, endCoords) ==
    IF ~InRange(gs, startCoords[1], startCoords[2]) \/ ~InRange(gs, endCoords[1], endCoords[2])
    THEN AssertionError
    ELSE LET startVal == getItem(gs, startCoords[1], startCoords[2])
             endVal == getItem(gs, endCoords[1], endCoords[2])
         IN  IF endVal = None
             THEN setItem(setItem(gs, endCoords[1], endCoords[2], startVal),
                          startCoords[1], startCoords[2], None)
             ELSE IF startVal = endVal
             THEN setItem(setItem(gs, endCoords[1], endCoords[2], startVal),
                          startCoords[1], startCoords[2], None)
             ELSE gs

\* shiftOneItemTo merging into any tile, equal or not.
shiftOneItemToMergeAny(gs, startCoords, endCoords) ==
    IF ~InRange(gs, startCoords[1], startCoords[2]) \/ ~InRange(gs, endCoords[1], endCoords[2])
    THEN AssertionError
    ELSE LET startVal == getItem(gs, startCoords[1], startCoords[2])
             endVal == getItem(gs, endCoords[1], endCoords[2])
         IN  IF endVal = None
             THEN setItem(setItem(gs, endCoords[1], endCoords[2], startVal),
                          startCoords[1], startCoords[2], None)
             ELSE setItem(setItem(gs, endCoords[1], endCoords[2], startVal + endVal),
                          startCoords[1], startCoords[2], None)

\* shiftOneItemTo merging only tiles that no merge has produced yet (2, the
\* value of a spawned tile).
shiftOneItemToNoRemerge(gs, startCoords, endCoords) ==
    IF ~InRange(gs, startCoords[1], startCoords[2]) \/ ~InRange(gs, endCoords[1], endCoords[2])
    THEN AssertionError
    ELSE LET startVal == getItem(gs, startCoords[1], startCoords[2])
             endVal == getItem(gs, endCoords[1], endCoords[2])
         IN  IF endVal = None
             THEN setItem(setItem(gs, endCoords[1], endCoords[2], startVal),
                          startCoords[1], startCoords[2], None)
             ELSE IF startVal = endVal /\ startVal = 2
             THEN setItem(setItem(gs, endCoords[1], endCoords[2], startVal + endVal),
                          startCoords[1], startCoords[2], None)
             ELSE gs

\* shiftOneItemTo returning right after the merge: the source is not cleared.
shiftOneItemToKeepSource(gs, startCoords, endCoords) ==
    IF ~InRange(gs, startCoords[1], startCoords[2]) \/ ~InRange(gs, endCoords[1], endCoords[2])
    THEN AssertionError
    ELSE LET startVal == getItem(gs, startCoords[1], startCoords[2])
             endVal == getItem(gs, endCoords[1], endCoords[2])
         IN  IF endVal = None
             THEN setItem(setItem(gs, endCoords[1], endCoords[2], startVal),
                          startCoords[1], startCoords[2], None)
             ELSE IF startVal = endVal
             THEN setItem(gs, endCoords[1], endCoords[2], startVal + endVal)
             ELSE gs

\* shiftOneItemTo: coordinates are <<x, y>>.  Both getItem calls come first, so
\* a coordinate out of range aborts the call before any cell is written.
shiftOneItemTo(gs, startCoords, endCoords) ==
    IF ~InRange(gs, startCoords[1], startCoords[2]) \/ ~InRange(gs, endCoords[1], endCoords[2])
    THEN AssertionError
    ELSE LET startVal == getItem(gs, startCoords[1], startCoords[2])
             endVal == getItem(gs, endCoords[1], endCoords[2])
         IN  IF endVal = None
             THEN setItem(setItem(gs, endCoords[1], endCoords[2], startVal),
                          startCoords[1], startCoords[2], None)
             ELSE IF startVal = endVal
             THEN setItem(setItem(gs, endCoords[1], endCoords[2], startVal + endVal),
                          startCoords[1], startCoords[2], None)
             ELSE gs

\* The body of the scan (lines 105-114) with the edge tests left out.
VisitNoEdgeTest(gs, move, x, y) ==
    IF getItem(gs, x, y) = None THEN gs
    ELSE IF move = "up" THEN shiftOneItemTo(gs, <<x, y>>, <<x, y - 1>>)
    ELSE IF move = "down" THEN shiftOneItemTo(gs, <<x, y>>, <<x, y + 1>>)
    ELSE IF move = "left" THEN shiftOneItemTo(gs, <<x, y>>, <<x - 1, y>>)
    ELSE IF move = "right" THEN shiftOneItemTo(gs, <<x, y>>, <<x + 1, y>>)
    ELSE gs

\* The body of the scan of moveAllItemsInDir for the cell (x, y).
Visit(gs, move, x, y) ==
    IF getItem(gs, x, y) = None THEN gs
    ELSE IF move = "up" /\ y > 0 THEN shiftOneItemTo(gs, <<x, y>>, <<x, y - 1>>)
    ELSE IF move = "down" /\ y < gs.size - 1 THEN shiftOneItemTo(gs, <<x, y>>, <<x, y + 1>>)
    ELSE IF move = "left" /\ x > 0 THEN shiftOneItemTo(gs, <<x, y>>, <<x - 1, y>>)
    ELSE IF move = "right" /\ x < gs.size - 1 THEN shiftOneItemTo(gs, <<x, y>>, <<x + 1, y>>)
    ELSE gs

\* The scan "for y ... for x ..." from the i-th cell in row-major order on.
RECURSIVE ScanFrom(_, _, _)
ScanFrom(gs, move, i) ==
    IF Raised(gs) THEN gs
    ELSE IF i >= gs.size * gs.size THEN gs
    ELSE ScanFrom(Visit(gs, move, i % gs.size, i \div gs.size), move, i + 1)

\* The scan run from the last cell down to the first.
RECURSIVE ScanDownFrom(_, _, _)
ScanDownFrom(gs, move, i) ==
    IF Raised(gs) THEN gs
    ELSE IF i < 0 THEN gs
    ELSE ScanDownFrom(Visit(gs, move, i % gs.size, i \div gs.size), move, i - 1)

\* One pass in descending order: y and x from size-1 down to 0.
PassDescending(gs, move) == ScanDownFrom(gs, move, gs.size * gs.size - 1)

\* One pass: the body of the while loop of moveAllItemsInDir.
Pass(gs, move) == ScanFrom(gs, move, 0)

\* The while loop of moveAllItemsInDir: gs is self.gameState.
RECURSIVE WhileNotEqual(_, _, _)
WhileNotEqual(gs, lastState, move) ==
    IF Raised(gs) THEN gs
    ELSE IF GameStateEq(gs, lastState) THEN gs
    ELSE WhileNotEqual(Pass(gs, move), gs, move)

\* moveAllItemsInDir with "if" for "while": a single pass.
moveAllItemsInDirOnePass(gs, move) ==
    IF GameStateEq(gs, GameState(gs.size)) THEN gs ELSE Pass(gs, move)

\* moveAllItemsInDir: the game state it leaves, or AssertionError.
moveAllItemsInDir(gs, move) == WhileNotEqual(gs, GameState(gs.size), move)

AllCells(gs) == Coords(gs.size) \X Coords(gs.size)

\* movLs of checkIfGameOver.
movLs == <<"up", "down", "left", "right">>

\* Lines 148-149 without the test of isEmpty.
GameOverFlagNoIsEmpty(gs, gameMoves) ==
    IF \E i \in DOMAIN gameMoves : Raised(gameMoves[i])
    THEN AssertionError
    ELSE [isGameOver |-> \A i \in DOMAIN gameMoves : GameStateEq(gs, gameMoves[i])]

\* The flag with any() in place of all() on line 148: one simulated move that
\* leaves the grid as it is keeps the flag True.
GameOverFlagAny(gs, gameMoves) ==
    LET isEmpty == \A c \in AllCells(gs) : getItem(gs, c[1], c[2]) = None
    IN  IF \E i \in DOMAIN gameMoves : Raised(gameMoves[i])
        THEN AssertionError
        ELSE [isGameOver |->
                 ~(isEmpty \/ ~(\E i \in DOMAIN gameMoves : GameStateEq(gs, gameMoves[i])))]

\* Lines 142-143 and 148-149 of checkIfGameOver: the flag starts True and is
\* reset if the grid is all empty or some simulated move differs from it.
GameOverFlag(gs, gameMoves) ==
    LET isEmpty == \A c \in AllCells(gs) : getItem(gs, c[1], c[2]) = None
    IN  IF \E i \in DOMAIN gameMoves : Raised(gameMoves[i])
        THEN AssertionError
        ELSE [isGameOver |->
                 ~(isEmpty \/ ~(\A i \in DOMAIN gameMoves : GameStateEq(gs, gameMoves[i])))]

\* copy.copy in place of copy.deepcopy: every copy of the session refers to
\* the grid object of the session itself.
deepcopyShallow(i) == 0

\* copy.deepcopy(self), line 146, for the i-th element of gameMoves: the grid
\* objects are numbered, 0 is the session's own, and the copy gets one of its
\* own, i.
deepcopy(i) == i

\* Line 147, from the i-th simulated move on: objs[r] is the grid that object
\* r holds.  A move that raises ends the call.
RECURSIVE SimulateFrom(_, _)
SimulateFrom(objs, i) ==
    IF i > Len(movLs) \/ (\E r \in DOMAIN objs : Raised(objs[r]))
    THEN objs
    ELSE SimulateFrom(
             [objs EXCEPT ![deepcopy(i)] = moveAllItemsInDir(objs[deepcopy(i)], movLs[i])],
             i + 1)

\* Lines 146-147: the grid objects after the copies are made, each a copy of
\* gs, and the simulated moves have run.
GridsAfterMoves(gs) == SimulateFrom([r \in 0 .. Len(movLs) |-> gs], 1)

\* Lines 148-149 on those objects: the session's fields as the call leaves
\* them, or AssertionError.
SessionAfterCheck(objs, flag) ==
    IF Raised(flag) THEN flag
    ELSE [isGameOver |-> flag.isGameOver, gameState |-> objs[0]]

CheckOn(objs) ==
    SessionAfterCheck(objs,
        IF Raised(objs[0]) THEN AssertionError
        ELSE GameOverFlag(objs[0], [i \in DOMAIN movLs |-> objs[deepcopy(i)]]))

\* checkIfGameOver on a session whose grid is gs: the isGameOver and gameState
\* it leaves in the session, or AssertionError.
checkIfGameOver(gs) == CheckOn(GridsAfterMoves(gs))

\* addNumToRandomPoint without the test that the sampled cell is empty.
addNumToRandomPointAnyCell(gs, val) ==
    {setItem(gs, c[1], c[2], val) : c \in AllCells(gs)}

\* addNumToRandomPoint: the states the rejection sampler can leave, one for
\* each empty cell; with no empty cell the loop never ends.
addNumToRandomPoint(gs, val) ==
    {setItem(gs, c[1], c[2], val) : c \in {d \in AllCells(gs) : getItem(gs, d[1], d[2]) = None}}

\* nextMove without the test of line 93: the spawn is always attempted.
isFullUntested(gs) == FALSE

\* The test of nextMove before the spawn (line 93).
isFull(gs) == \A c \in AllCells(gs) : getItem(gs, c[1], c[2]) # None

\* -------------------------------------------------------------------- state
VARIABLES
    gameState,   \* GameSession.gameState: [size, data]
    isGameOver,  \* GameSession.isGameOver
    fault,       \* "none", or how the process stopped: "AssertionError", "spin"
    op,          \* the call that led to this state: [name, move, start]
    before,      \* gameState when that call began
    wasGameOver, \* isGameOver when that call began
    resolved,    \* in nextMove: gameState after moveAllItemsInDir, before the spawn
    spawns,      \* tiles spawned so far
    pc,          \* position in the while loop of moveAllItemsInDir
    lastState,   \* the local lastState of moveAllItemsInDir
    passes,      \* passes the running moveAllItemsInDir has made
    events       \* in main: the events of the last poll that the for loop has yet to handle

vars == <<gameState, isGameOver, fault, op, before, wasGameOver, resolved, spawns, pc, lastState,
         passes, events>>

NoCoords == <<0 - 1, 0 - 1>>

Call(name, move, start) == [name |-> name, move |-> move, start |-> start]

\* The state right after GameSession(size) is constructed.
Fresh(size) ==
    /\ gameState = GameState(size)
    /\ isGameOver = FALSE
    /\ fault = "none"
    /\ op = Call("init", "none", NoCoords)
    /\ before = gameState
    /\ wasGameOver = isGameOver
    /\ resolved = gameState
    /\ spawns = 0
    /\ pc = "idle"
    /\ lastState = gameState
    /\ passes = 0
    /\ events = <<>>

\* GameSession.__init__ for each size of the model.
Init == \E size \in 1 .. MaxSize : Fresh(size)

\* nextMove with lines 91 and 93-94 exchanged: the spawn first, then the
\* terminal check on the grid the spawn left.
nextMoveCheckLast(move) ==
    /\ fault = "none"
    /\ pc = "idle"
    /\ op' = Call("nextMove", move, NoCoords)
    /\ before' = gameState
    /\ wasGameOver' = isGameOver
    /\ UNCHANGED <<pc, lastState, passes>>
    /\ \E moved \in {moveAllItemsInDir(gameState, move)} :
           IF Raised(moved)
           THEN /\ fault' = "AssertionError"
                /\ UNCHANGED <<gameState, isGameOver, resolved, spawns>>
           ELSE /\ resolved' = moved
                /\ UNCHANGED fault
                /\ IF isFull(moved)
                   THEN gameState' = moved /\ UNCHANGED spawns
                   ELSE /\ spawns < MaxSpawns
                        /\ gameState' \in addNumToRandomPoint(moved, SpawnVal)
                        /\ spawns' = spawns + 1
                /\ isGameOver' = checkIfGameOver(gameState').isGameOver

\* nextMove(move): move resolution, the terminal check, then the spawn.
nextMove(move) ==
    /\ fault = "none"
    /\ pc = "idle"
    /\ op' = Call("nextMove", move, NoCoords)
    /\ before' = gameState
    /\ wasGameOver' = isGameOver
    /\ UNCHANGED <<pc, lastState, passes>>
    /\ \E moved \in {moveAllItemsInDir(gameState, move)} :
           IF Raised(moved)
           THEN /\ fault' = "AssertionError"
                /\ UNCHANGED <<gameState, isGameOver, resolved, spawns>>
           ELSE \E chk \in {checkIfGameOver(moved)} :
                    IF Raised(chk)
                    THEN /\ fault' = "AssertionError"
                         /\ gameState' = moved
                         /\ resolved' = moved
                         /\ isGameOver' = TRUE
                         /\ UNCHANGED spawns
                    ELSE /\ resolved' = moved
                         /\ isGameOver' = chk.isGameOver
                         /\ IF isFull(chk.gameState)
                            THEN /\ gameState' = chk.gameState
                                 /\ UNCHANGED <<fault, spawns>>
                            ELSE IF addNumToRandomPoint(chk.gameState, SpawnVal) = {}
                            THEN /\ fault' = "spin"
                                 /\ gameState' = chk.gameState
                                 /\ UNCHANGED spawns
                            ELSE /\ spawns < MaxSpawns
                                 /\ gameState' \in addNumToRandomPoint(chk.gameState, SpawnVal)
                                 /\ spawns' = spawns + 1
                                 /\ UNCHANGED fault

Next == \E move \in Move : nextMove(move) /\ UNCHANGED events

\* A session driven by any sequence of nextMove calls.
Spec == Init /\ [][Next]_vars

\* ------------------------------------------------------------------- main
\* The most events that one pygame.event.get() returns.
MaxEvents == 2

\* What main tells apart in an event: a KEYDOWN of a key of moveDict (named by
\* its move), pygame.QUIT, and any other event.
Events == Move \cup {"QUIT", "other"}

\* The non-empty lists pygame.event.get() can return; an empty list leaves
\* every variable as it is.
Polls == UNION {[1 .. n -> Events] : n \in 1 .. MaxEvents}

\* main, lines 160-164: the while test finds isGameOver false and the for
\* loop starts on the list pygame.event.get() returns.
mainPoll(poll) ==
    /\ fault = "none"
    /\ events = <<>>
    /\ ~isGameOver
    /\ events' = poll
    /\ UNCHANGED <<gameState, isGameOver, fault, op, before, wasGameOver, resolved, spawns, pc,
                   lastState, passes>>

\* main, lines 165-166: the next event of the list is a direction key.  The
\* for loop does not read isGameOver.
mainKeyDown ==
    /\ events # <<>>
    /\ Head(events) \in Move
    /\ nextMove(Head(events))
    /\ events' = Tail(events)

\* main, lines 167-168: the next event is pygame.QUIT and sys.exit() ends the
\* program.
mainQuit ==
    /\ fault = "none"
    /\ events # <<>>
    /\ Head(events) = "QUIT"
    /\ fault' = "SystemExit"
    /\ events' = <<>>
    /\ UNCHANGED <<gameState, isGameOver, op, before, wasGameOver, resolved, spawns, pc, lastState, passes>>

\* main, lines 164-168: any other event is skipped.
mainOtherEvent ==
    /\ fault = "none"
    /\ events # <<>>
    /\ Head(events) = "other"
    /\ events' = Tail(events)
    /\ UNCHANGED <<gameState, isGameOver, fault, op, before, wasGameOver, resolved, spawns, pc,
                   lastState, passes>>

NextMain ==
    \/ \E poll \in Polls : mainPoll(poll)
    \/ mainKeyDown
    \/ mainQuit
    \/ mainOtherEvent

\* main on a fresh session, for every list of events each poll can return.
SpecMain == Init /\ [][NextMain]_vars

\* ------------------------------------------------- calls on arbitrary grids
\* What a cell of an input grid holds: None, or a tile that merges (2 with 2)
\* into the other tile value.
CellValues == {None, 2, 4}

\* The tiles of the input grids that have no empty cell.
FullCellValues == {2, 4, 8}

\* The lines (rows or columns) of one size over a set of cell values.
Lines(size, values) == [Coords(size) -> values]

\* The grid of one size with the given rows.
GridOf(size, d) == [size |-> size, data |-> d]

\* The grid whose only tiles are those of line, laid in row r.
RowGrid(size, r, line) ==
    GridOf(size, [y \in Coords(size) |-> [x \in Coords(size) |->
                     IF y = r THEN line[x] ELSE None]])

\* The grid whose only tiles are those of line, laid in column r.
ColumnGrid(size, r, line) ==
    GridOf(size, [y \in Coords(size) |-> [x \in Coords(size) |->
                     IF x = r THEN line[y] ELSE None]])

\* g is an input grid: any grid up to MaxSize over CellValues, or up to
\* MaxLineSize a grid whose tiles all lie in one row or all in one column.
IsInputGrid(g) ==
    \/ \E size \in 1 .. MaxSize : \E d \in [Coords(size) -> Lines(size, CellValues)] :
           g = GridOf(size, d)
    \/ \E size \in 1 .. MaxLineSize : \E r \in Coords(size) :
           \E line \in Lines(size, CellValues) : g = RowGrid(size, r, line)
    \/ \E size \in 1 .. MaxLineSize : \E r \in Coords(size) :
           \E line \in Lines(size, CellValues) : g = ColumnGrid(size, r, line)

\* g is a grid up to MaxSize with a tile of FullCellValues in every cell.
IsFullInputGrid(g) ==
    \E size \in 1 .. MaxSize : \E d \in [Coords(size) -> Lines(size, FullCellValues)] :
        g = GridOf(size, d)

\* The variables that no call has written yet.
Untouched ==
    /\ fault = "none"
    /\ op = Call("init", "none", NoCoords)
    /\ before = gameState
    /\ wasGameOver = isGameOver
    /\ resolved = gameState
    /\ spawns = 0
    /\ pc = "idle"
    /\ lastState = gameState
    /\ passes = 0
    /\ events = <<>>

\* A session whose grid was filled through setItem.
InitGrid ==
    /\ IsInputGrid(gameState)
    /\ isGameOver = FALSE
    /\ Untouched

\* The same with the full grids too, and with either value of the flag.
InitCheck ==
    /\ IsInputGrid(gameState) \/ IsFullInputGrid(gameState)
    /\ isGameOver \in BOOLEAN
    /\ Untouched

\* The cell one step from c = <<x, y>> in the direction of the move: the
\* endCoords that the scan of moveAllItemsInDir hands to shiftOneItemTo.
Dest(move, c) ==
    IF move = "up" THEN <<c[1], c[2] - 1>>
    ELSE IF move = "down" THEN <<c[1], c[2] + 1>>
    ELSE IF move = "left" THEN <<c[1] - 1, c[2]>>
    ELSE <<c[1] + 1, c[2]>>

\* One call of moveAllItemsInDir(move) on the input grid.
callMoveAllItemsInDir(move) ==
    /\ fault = "none"
    /\ op.name = "init"
    /\ op' = Call("moveAllItemsInDir", move, NoCoords)
    /\ before' = gameState
    /\ wasGameOver' = isGameOver
    /\ \E moved \in {moveAllItemsInDir(gameState, move)} :
           IF Raised(moved)
           THEN fault' = "AssertionError" /\ UNCHANGED gameState
           ELSE gameState' = moved /\ UNCHANGED fault
    /\ UNCHANGED <<isGameOver, resolved, spawns, pc, lastState, passes, events>>

NextMoveAll == \E move \in Move : callMoveAllItemsInDir(move)

SpecMove == InitGrid /\ [][NextMoveAll]_vars

\* Two orthogonally adjacent cells hold the same tile value.
HasAdjacentEqual(gs) ==
    \E c \in AllCells(gs) : \E move \in {"right", "down"} :
        /\ InRange(gs, Dest(move, c)[1], Dest(move, c)[2])
        /\ getItem(gs, c[1], c[2]) # None
        /\ getItem(gs, c[1], c[2]) = getItem(gs, Dest(move, c)[1], Dest(move, c)[2])

\* setItem(x, y, None) on a full grid in which no two adjacent cells are equal.
callSetItemNone(c) ==
    /\ fault = "none"
    /\ op.name = "init"
    /\ isFull(gameState)
    /\ ~HasAdjacentEqual(gameState)
    /\ op' = Call("setItem", "none", c)
    /\ before' = gameState
    /\ wasGameOver' = isGameOver
    /\ gameState' = setItem(gameState, c[1], c[2], None)
    /\ UNCHANGED <<isGameOver, fault, resolved, spawns, pc, lastState, passes, events>>

\* One call of checkIfGameOver, on the input grid or after the setItem.
callCheckIfGameOver ==
    /\ fault = "none"
    /\ op.name \in {"init", "setItem"}
    /\ op' = Call("checkIfGameOver", "none", op.start)
    /\ before' = gameState
    /\ wasGameOver' = isGameOver
    /\ \E chk \in {checkIfGameOver(gameState)} :
           IF Raised(chk)
           THEN fault' = "AssertionError" /\ isGameOver' = TRUE /\ UNCHANGED gameState
           ELSE isGameOver' = chk.isGameOver /\ gameState' = chk.gameState /\ UNCHANGED fault
    /\ UNCHANGED <<resolved, spawns, pc, lastState, passes, events>>

NextCheck ==
    \/ \E c \in AllCells(gameState) : callSetItemNone(c)
    \/ callCheckIfGameOver

SpecCheck == InitCheck /\ [][NextCheck]_vars

\* One call of shiftOneItemTo as the scan makes it: from a tile to the cell
\* one step in the direction of the move, inside the grid.
callShiftOneItemTo(move, start) ==
    /\ fault = "none"
    /\ op.name = "init"
    /\ getItem(gameState, start[1], start[2]) # None
    /\ InRange(gameState, Dest(move, start)[1], Dest(move, start)[2])
    /\ op' = Call("shiftOneItemTo", move, start)
    /\ before' = gameState
    /\ wasGameOver' = isGameOver
    /\ LET shifted == shiftOneItemTo(gameState, start, Dest(move, start))
       IN  IF Raised(shifted)
           THEN fault' = "AssertionError" /\ UNCHANGED gameState
           ELSE gameState' = shifted /\ UNCHANGED fault
    /\ UNCHANGED <<isGameOver, resolved, spawns, pc, lastState, passes, events>>

NextShift == \E move \in Move : \E start \in AllCells(gameState) : callShiftOneItemTo(move, start)

SpecShift == InitGrid /\ [][NextShift]_vars

\* One nextMove call on a session that is fresh or has only had nextMove
\* calls.
playFresh(move) ==
    /\ \/ op.name = "nextMove"
       \/ op.name = "init" /\ \E size \in 1 .. MaxSize : gameState = GameState(size)
    /\ nextMove(move)
    /\ UNCHANGED events

NextSessions ==
    \/ \E move \in Move : callMoveAllItemsInDir(move)
    \/ \E move \in Move : playFresh(move)

\* Sessions of both kinds: filled through setItem and given one
\* moveAllItemsInDir call, or fresh and played by nextMove calls.
SpecSessions == InitGrid /\ [][NextSessions]_vars

\* ------------------------------------- moveAllItemsInDir, one pass at a time
\* A session before its grid is filled.
InitPass ==
    /\ gameState = GameState(1)
    /\ isGameOver = FALSE
    /\ fault = "none"
    /\ op = Call("new", "none", NoCoords)
    /\ before = gameState
    /\ wasGameOver = isGameOver
    /\ resolved = gameState
    /\ spawns = 0
    /\ pc = "idle"
    /\ lastState = gameState
    /\ passes = 0
    /\ events = <<>>

\* The grid is filled through setItem with an input grid.
fillGrid ==
    /\ op.name = "new"
    /\ IsInputGrid(gameState')
    /\ op' = Call("init", "none", NoCoords)
    /\ before' = gameState'
    /\ wasGameOver' = isGameOver
    /\ resolved' = gameState'
    /\ lastState' = gameState'
    /\ UNCHANGED <<isGameOver, fault, spawns, pc, passes, events>>

\* moveAllItemsInDir(move) is entered: lastState = GameState(size).
enterMoveAllItemsInDir(move) ==
    /\ fault = "none"
    /\ pc = "idle"
    /\ op.name = "init"
    /\ op' = Call("moveAllItemsInDir", move, NoCoords)
    /\ before' = gameState
    /\ wasGameOver' = isGameOver
    /\ lastState' = GameState(gameState.size)
    /\ passes' = 0
    /\ pc' = "while"
    /\ UNCHANGED <<gameState, isGameOver, fault, resolved, spawns, events>>

\* The while test holds and the body runs: one full scan.
loopPass ==
    /\ fault = "none"
    /\ pc = "while"
    /\ ~GameStateEq(gameState, lastState)
    /\ lastState' = gameState
    /\ passes' = passes + 1
    /\ \E scanned \in {Pass(gameState, op.move)} :
           IF Raised(scanned)
           THEN fault' = "AssertionError" /\ UNCHANGED gameState
           ELSE gameState' = scanned /\ UNCHANGED fault
    /\ UNCHANGED <<isGameOver, op, before, wasGameOver, resolved, spawns, pc, events>>

\* The while test fails: moveAllItemsInDir returns.
loopExit ==
    /\ fault = "none"
    /\ pc = "while"
    /\ GameStateEq(gameState, lastState)
    /\ pc' = "done"
    /\ UNCHANGED <<gameState, isGameOver, fault, op, before, wasGameOver, resolved, spawns, lastState, passes, events>>

NextPass ==
    \/ fillGrid
    \/ \E move \in Move : enterMoveAllItemsInDir(move)
    \/ loopPass
    \/ loopExit

SpecPass == InitPass /\ [][NextPass]_vars

\* The recursive moveAllItemsInDir and the loop run pass by pass agree.
PassLoopAgrees ==
    (pc = "done" /\ fault = "none") => gameState = moveAllItemsInDir(before, op.move)

\* ------------------------------------------------------------------- claims
EmptyCells(gs) == {c \in AllCells(gs) : getItem(gs, c[1], c[2]) = None}

\* No move changes the grid.
NoMoveChanges(gs) == \A move \in Move : moveAllItemsInDir(gs, move) = gs

\* Row y of the grid, from x = 0 on, as a sequence.
Row(gs, y) == [i \in 1 .. gs.size |-> getItem(gs, i - 1, y)]

\* Some tile has, one step in the direction of the move and inside the grid,
\* a neighbour that is empty or holds the same value.
CanShift(gs, move) ==
    \E c \in AllCells(gs) :
        /\ getItem(gs, c[1], c[2]) # None
        /\ InRange(gs, Dest(move, c)[1], Dest(move, c)[2])
        /\ getItem(gs, Dest(move, c)[1], Dest(move, c)[2]) \in {None, getItem(gs, c[1], c[2])}

\* C1: in every state of a session driven by nextMove calls, isGameOver is
\* true if and only if no cell is empty and none of the four moves changes
\* the grid.
C1_TerminalIffNoMove ==
    isGameOver <=> (EmptyCells(gameState) = {} /\ NoMoveChanges(gameState))

\* C2: right after checkIfGameOver returns, on any grid, isGameOver is true
\* exactly when the grid has no empty cell and no move changes it; it is
\* false whenever a cell is empty.
C2_CheckExact ==
    (op.name = "checkIfGameOver" /\ fault = "none") =>
        /\ isGameOver <=> (EmptyCells(gameState) = {} /\ NoMoveChanges(gameState))
        /\ EmptyCells(gameState) # {} => ~isGameOver

\* checkIfGameOver ran on a grid with both a tile and an empty cell, where the
\* test of isEmpty does not apply, and reported false.
C2_Witness ==
    /\ op.name = "checkIfGameOver"
    /\ fault = "none"
    /\ EmptyCells(gameState) # {}
    /\ EmptyCells(gameState) # AllCells(gameState)
    /\ ~isGameOver

\* C3: checkIfGameOver reports terminal on every full grid in which no two
\* adjacent cells are equal, and non-terminal on such a grid with one cell
\* changed to empty.
C3_FullNoPairTerminal ==
    (op.name = "checkIfGameOver" /\ fault = "none") =>
        /\ (EmptyCells(gameState) = {} /\ ~HasAdjacentEqual(gameState)) => isGameOver
        /\ (\E c \in AllCells(gameState) :
                /\ op.start = c
                /\ EmptyCells(gameState) = {c}) => ~isGameOver

\* A full grid without equal neighbours, of side 2 at least, had one cell set
\* to None and was then reported non-terminal.
C3_Witness ==
    /\ op.name = "checkIfGameOver"
    /\ fault = "none"
    /\ gameState.size >= 2
    /\ EmptyCells(gameState) = {op.start}
    /\ ~isGameOver

\* C4: the grid that moveAllItemsInDir(d) leaves is left unchanged by a second
\* moveAllItemsInDir(d).
C4_MoveIdempotent ==
    (op.name = "moveAllItemsInDir" /\ fault = "none") =>
        moveAllItemsInDir(gameState, op.move) = gameState

\* A move that changed the grid, with tiles travelling more than one cell.
C4_Witness ==
    /\ op.name = "moveAllItemsInDir"
    /\ fault = "none"
    /\ gameState # before
    /\ Pass(before, op.move) # gameState

\* C5: on a grid of size 4, a row [2, 2, 2, None] resolved by a left move ends
\* as [4, 2, None, None].
C5_CascadeRow ==
    (op.name = "moveAllItemsInDir" /\ op.move = "left" /\ fault = "none" /\ before.size = 4) =>
        \A y \in Coords(4) :
            Row(before, y) = <<2, 2, 2, None>> => Row(gameState, y) = <<4, 2, None, None>>

C5_Witness ==
    /\ op.name = "moveAllItemsInDir"
    /\ op.move = "left"
    /\ fault = "none"
    /\ before.size = 4
    /\ \E y \in Coords(4) :
           Row(before, y) = <<2, 2, 2, None>> /\ Row(gameState, y) = <<4, 2, None, None>>

\* C6: in nextMove, if the grid has an empty cell after move resolution, the
\* spawn turns exactly one empty cell into 2 and changes no other cell; if the
\* grid is full, the spawn step changes nothing.
C6_SpawnFrame ==
    (op.name = "nextMove" /\ fault = "none") =>
        IF EmptyCells(resolved) # {}
        THEN \E c \in EmptyCells(resolved) : gameState = setItem(resolved, c[1], c[2], 2)
        ELSE gameState = resolved

\* A move that changed nothing on a grid with tiles and room: a tile spawned.
C6_Witness ==
    /\ op.name = "nextMove"
    /\ fault = "none"
    /\ resolved = before
    /\ EmptyCells(before) # AllCells(before)
    /\ gameState # resolved

\* Cells from c to the wall that the move pushes towards.
Distance(gs, move, c) ==
    IF move = "up" THEN c[2]
    ELSE IF move = "down" THEN gs.size - 1 - c[2]
    ELSE IF move = "left" THEN c[1]
    ELSE gs.size - 1 - c[1]

\* The sum over the tiles, from the i-th cell on, of 1 + Distance.
RECURSIVE PotentialFrom(_, _, _)
PotentialFrom(gs, move, i) ==
    IF i >= gs.size * gs.size THEN 0
    ELSE (IF getItem(gs, i % gs.size, i \div gs.size) = None
          THEN 0
          ELSE 1 + Distance(gs, move, <<i % gs.size, i \div gs.size>>))
         + PotentialFrom(gs, move, i + 1)

\* What a pass that moves or merges a tile strictly decreases.
Potential(gs, move) == PotentialFrom(gs, move, 0)

\* C7: the pass loop of moveAllItemsInDir terminates: a pass that changes the
\* grid moves or merges a tile, which lowers the potential; a pass that
\* changes nothing is followed by the exit of the loop, the only way out; so
\* the loop makes at most Potential + 1 passes.
C7_PassLoopTerminates ==
    (op.name = "moveAllItemsInDir" /\ fault = "none") =>
        /\ (passes > 0 /\ gameState # lastState) =>
               Potential(gameState, op.move) < Potential(lastState, op.move)
        /\ (pc = "while" /\ passes > 0 /\ gameState = lastState) =>
               (ENABLED loopExit /\ ~ENABLED loopPass)
        /\ pc = "done" => gameState = lastState
        /\ passes <= Potential(before, op.move) + 1

\* The loop returned after a tile alone in its row slid left from x = 3 to
\* x = 0, one cell in each of three passes, and a fourth pass changed nothing.
C7_Witness ==
    /\ pc = "done"
    /\ op.move = "left"
    /\ before.size = 4
    /\ passes = 4
    /\ \E y \in Coords(4) :
           /\ Row(before, y) = <<None, None, None, 2>>
           /\ Row(gameState, y) = <<2, None, None, None>>

\* C8: no nextMove call fails a range assertion of getItem or setItem.
C8_NoAssertionError == fault # "AssertionError"

\* nextMove(up) returned with a tile in row 0, and nextMove(right) with a tile
\* in the last column: the scan met tiles whose neighbour is off the grid.
C8_Witness ==
    /\ op.name = "nextMove"
    /\ fault = "none"
    /\ gameState.size >= 2
    /\ \/ op.move = "up" /\ \E x \in Coords(before.size) : getItem(before, x, 0) # None
       \/ op.move = "right" /\
              \E y \in Coords(before.size) : getItem(before, before.size - 1, y) # None

\* C9: moveAllItemsInDir(d) leaves the grid unchanged exactly when no tile
\* has, one step in direction d inside the grid, a neighbour that is empty or
\* equal; so a move up with every tile in row 0 changes nothing.
C9_UnchangedIffBlocked ==
    (op.name = "moveAllItemsInDir" /\ fault = "none") =>
        /\ (gameState = before) <=> ~CanShift(before, op.move)
        /\ (op.move = "up" /\ \A c \in AllCells(before) :
                                  getItem(before, c[1], c[2]) # None => c[2] = 0)
               => gameState = before

\* A move up on a grid of side 2 or more whose tiles are all in row 0.
C9_Witness ==
    /\ op.name = "moveAllItemsInDir"
    /\ fault = "none"
    /\ op.move = "up"
    /\ before.size >= 2
    /\ EmptyCells(before) # AllCells(before)
    /\ \A c \in AllCells(before) : getItem(before, c[1], c[2]) # None => c[2] = 0
    /\ gameState = before

\* C10: shiftOneItemTo from a tile: into an empty destination the tile moves;
\* onto an equal destination the two merge into their sum; otherwise nothing
\* changes; cells other than source and destination never change.  So one
\* shift left inside a row [2, 2, None] gives [4, None, None].
C10_ShiftFrame ==
    (op.name = "shiftOneItemTo" /\ fault = "none") =>
        LET s == op.start
            d == Dest(op.move, op.start)
            startVal == getItem(before, s[1], s[2])
            endVal == getItem(before, d[1], d[2])
        IN  /\ endVal = None =>
                   getItem(gameState, d[1], d[2]) = startVal /\ getItem(gameState, s[1], s[2]) = None
            /\ endVal = startVal =>
                   /\ getItem(gameState, d[1], d[2]) = startVal + endVal
                   /\ getItem(gameState, s[1], s[2]) = None
            /\ endVal \notin {None, startVal} =>
                   getItem(gameState, d[1], d[2]) = endVal /\ getItem(gameState, s[1], s[2]) = startVal
            /\ \A c \in AllCells(before) \ {s, d} :
                   getItem(gameState, c[1], c[2]) = getItem(before, c[1], c[2])
            /\ gameState.size = before.size
            /\ (before.size = 3 /\ op.move = "left" /\ s[1] = 1 /\
                    Row(before, s[2]) = <<2, 2, None>>)
                   => Row(gameState, s[2]) = <<4, None, None>>

\* The merge of the row [2, 2, None] into [4, None, None].
C10_Witness ==
    /\ op.name = "shiftOneItemTo"
    /\ fault = "none"
    /\ op.move = "left"
    /\ before.size = 3
    /\ op.start[1] = 1
    /\ Row(before, op.start[2]) = <<2, 2, None>>
    /\ Row(gameState, op.start[2]) = <<4, None, None>>

\* A pass with the travel of the tiles recorded: st.gs is the grid, and
\* st.trav[c] the most cells that a tile now in cell c (alone or merged into
\* it) has travelled since the pass began.  moved is what the scan makes of
\* st.gs at cell c.
TravelAfter(st, move, c, moved) ==
    IF Raised(moved) \/ moved = st.gs
    THEN st
    ELSE [gs |-> moved,
          trav |-> [st.trav EXCEPT
                       ![Dest(move, c)] = IF st.trav[c] + 1 > @ THEN st.trav[c] + 1 ELSE @,
                       ![c] = 0]]

RECURSIVE TravelScanFrom(_, _, _)
TravelScanFrom(st, move, i) ==
    IF i >= st.gs.size * st.gs.size THEN st
    ELSE TravelScanFrom(
             TravelAfter(st, move, <<i % st.gs.size, i \div st.gs.size>>,
                         Visit(st.gs, move, i % st.gs.size, i \div st.gs.size)),
             move, i + 1)

\* The pass from the grid gs, with the travel of each tile.
TravelPass(gs, move) ==
    TravelScanFrom([gs |-> gs, trav |-> [c \in AllCells(gs) |-> 0]], move, 0)

\* The pass that just ran is the scan in which no tile travelled more than
\* most cells.
TravelAtMost(most) ==
    \E st \in {TravelPass(lastState, op.move)} :
        /\ st.gs = gameState
        /\ \A c \in AllCells(gameState) : st.trav[c] <= most

C12_MergeAgain ==
    (op.name = "moveAllItemsInDir" /\ op.move = "left" /\ fault = "none" /\ before.size = 4) =>
        \A y \in Coords(4) : \A v \in CellValues \ {None} :
            Row(before, y) = <<v, v, v, v>> =>
                /\ Row(gameState, y) = <<4 * v, None, None, None>>
                /\ Row(gameState, y) # <<2 * v, 2 * v, None, None>>

C12_Witness ==
    /\ op.name = "moveAllItemsInDir"
    /\ op.move = "left"
    /\ fault = "none"
    /\ before.size = 4
    /\ \E y \in Coords(4) :
           Row(before, y) = <<2, 2, 2, 2>> /\ Row(gameState, y) = <<8, None, None, None>>

\* C13: main calls nextMove only while the session is not terminal: for any
\* sequence of events, several direction keys in one poll included, no
\* nextMove call begins in a state where isGameOver is true.  (mainKeyDown is
\* the one step of main that calls nextMove.)
C13_NextMoveOnlyWhileRunning ==
    [][mainKeyDown => ~isGameOver]_vars

RECURSIVE IsPowerOfTwo(_)
IsPowerOfTwo(n) == n = 1 \/ (n > 1 /\ n % 2 = 0 /\ IsPowerOfTwo(n \div 2))

\* C14: in every state reachable from a fresh session by nextMove calls, each
\* non-empty cell holds a power of two that is at least 2.
C14_PowersOfTwo ==
    \A c \in AllCells(gameState) :
        getItem(gameState, c[1], c[2]) # None =>
            /\ getItem(gameState, c[1], c[2]) >= 2
            /\ IsPowerOfTwo(getItem(gameState, c[1], c[2]))

\* After a nextMove call the grid holds a tile that two merges made, beside a
\* spawned one.
C14_Witness ==
    /\ op.name = "nextMove"
    /\ fault = "none"
    /\ \E c \in AllCells(gameState) : getItem(gameState, c[1], c[2]) = 8
    /\ \E c \in AllCells(gameState) : getItem(gameState, c[1], c[2]) = 2

\* C15: checkIfGameOver leaves the session's own grid as it was, for every
\* grid: the simulated moves run on copies that share no cell with it, and of
\* the session's fields only isGameOver is written.
C15_CheckFrame ==
    (op.name = "checkIfGameOver" /\ fault = "none") => gameState = before

\* checkIfGameOver has run on a grid that some move changes: a simulated move
\* wrote to its copy, and the call reset isGameOver.
C15_Witness ==
    /\ op.name = "checkIfGameOver"
    /\ fault = "none"
    /\ \E move \in Move : moveAllItemsInDir(before, move) # before
    /\ gameState = before
    /\ ~isGameOver

\* C16: nextMove enters the rejection sampler addNumToRandomPoint only on a
\* grid with an empty cell: the sampler never runs on a full grid, where its
\* loop would not end, and a grid that a spawn changed had an empty cell.
C16_SamplerHasEmptyCell ==
    /\ fault # "spin"
    /\ (op.name = "nextMove" /\ gameState # resolved) => EmptyCells(resolved) # {}

\* nextMove resolved the move to a full grid and skipped the sampler.
C16_Witness ==
    /\ op.name = "nextMove"
    /\ fault = "none"
    /\ EmptyCells(resolved) = {}
    /\ gameState = resolved
    /\ resolved.size = 2

\* C17: game over is absorbing: in every reachable state where isGameOver is
\* true the grid is full (and no move changes it), and a nextMove call made in such a state, in any
\* direction, leaves every cell as it was, spawns nothing and leaves
\* isGameOver true.
C17_GameOverAbsorbing ==
    /\ isGameOver => (isFull(gameState) /\ NoMoveChanges(gameState))
    /\ (op.name = "nextMove" /\ wasGameOver) =>
           /\ fault = "none"
           /\ resolved = before
           /\ gameState = before
           /\ isGameOver

\* A nextMove call was made on a size-2 session that was over.
C17_Witness ==
    /\ op.name = "nextMove"
    /\ wasGameOver
    /\ isGameOver
    /\ gameState = before
    /\ gameState.size = 2

\* C18: nextMove runs checkIfGameOver before the spawn, so a grid that the
\* spawn makes full with no move left is left with isGameOver false; and the
\* next nextMove call on a session in that state, in any direction, sets
\* isGameOver to true and leaves the grid as it was.
C18_DetectedOneMoveLate ==
    /\ (op.name = "nextMove" /\ fault = "none" /\ gameState # resolved
            /\ isFull(gameState) /\ NoMoveChanges(gameState)) => ~isGameOver
    /\ (op.name = "nextMove" /\ ~wasGameOver
            /\ isFull(before) /\ NoMoveChanges(before)) =>
           /\ fault = "none"
           /\ isGameOver
           /\ gameState = before

\* The nextMove call that follows such a spawn, on a size-2 session: the grid
\* was full with no move left and the flag false, and the call set the flag.
C18_Witness ==
    /\ op.name = "nextMove"
    /\ ~wasGameOver
    /\ isFull(before)
    /\ NoMoveChanges(before)
    /\ isGameOver
    /\ gameState = before
    /\ gameState.size = 2

\* The sum of the tiles of the cells from the i-th on, in row-major order.
RECURSIVE SumFrom(_, _)
SumFrom(gs, i) ==
    IF i >= gs.size * gs.size THEN 0
    ELSE (IF getItem(gs, i % gs.size, i \div gs.size) = None THEN 0
          ELSE getItem(gs, i % gs.size, i \div gs.size))
         + SumFrom(gs, i + 1)

Sum(gs) == SumFrom(gs, 0)

\* The number of non-empty cells.
Tiles(gs) == Cardinality(AllCells(gs) \ EmptyCells(gs))

\* C19: moveAllItemsInDir keeps the sum of the tiles and does not increase
\* the number of non-empty cells, for every grid and direction; and after any
\* sequence of nextMove calls on a fresh session the sum of the tiles is 2
\* times the number of spawns.
C19_SumConserved ==
    /\ (op.name = "moveAllItemsInDir" /\ fault = "none") =>
           /\ Sum(gameState) = Sum(before)
           /\ Tiles(gameState) <= Tiles(before)
    /\ (op.name = "nextMove" /\ fault = "none") =>
           /\ Sum(resolved) = Sum(before)
           /\ Tiles(resolved) <= Tiles(before)
           /\ Sum(gameState) = SpawnVal * spawns

\* A nextMove call, the fifth spawn or later, whose move merged tiles.
C19_Witness ==
    /\ op.name = "nextMove"
    /\ fault = "none"
    /\ spawns >= 5
    /\ Tiles(resolved) < Tiles(before)
    /\ Sum(gameState) = SpawnVal * spawns

\* The grid read from right to left.
MirrorHorizontal(gs) ==
    [size |-> gs.size,
     data |-> [y \in Coords(gs.size) |-> [x \in Coords(gs.size) |-> gs.data[y][gs.size - 1 - x]]]]

\* The grid read from bottom to top.
MirrorVertical(gs) ==
    [size |-> gs.size,
     data |-> [y \in Coords(gs.size) |-> [x \in Coords(gs.size) |-> gs.data[gs.size - 1 - y][x]]]]

\* C20: move resolution is mirror-symmetric: moveAllItemsInDir right on a grid
\* gives the horizontal mirror image of moveAllItemsInDir left on the grid's
\* horizontal mirror image, and down is up under the vertical mirror image.
C20_MirrorSymmetric ==
    /\ (op.name = "moveAllItemsInDir" /\ fault = "none" /\ op.move = "right") =>
           gameState = MirrorHorizontal(moveAllItemsInDir(MirrorHorizontal(before), "left"))
    /\ (op.name = "moveAllItemsInDir" /\ fault = "none" /\ op.move = "down") =>
           gameState = MirrorVertical(moveAllItemsInDir(MirrorVertical(before), "up"))

====
